---------------------------- MODULE Spec2Model ----------------------------
(***************************************************************************)
(* Model of the application process supervisor (appserver.Proc) of         *)
(* skywire: pkg/app/appserver/proc.go.                                     *)
(*                                                                         *)
(* Caller goroutines invoke Start, Stop, Wait, InjectConn and IsRunning on *)
(* one Proc.  A method is a sequence of steps of the calling goroutine,    *)
(* one per access to the shared state of the Proc, so that the             *)
(* interleavings the Go scheduler allows are behaviours of the model.      *)
(* Statements that no other goroutine can tell apart are one step: a       *)
(* critical section of waitMx, the two stores of InjectConn, the launch of *)
(* the goroutine and the return of Start.  The goroutine that Start        *)
(* launches, and the child process, are processes of their own.            *)
(*                                                                         *)
(* The module also models the choice of the secret key by the gen-config   *)
(* command of skywire-cli: cmd/skywire-cli/commands/visor/gen-config.go.   *)
(***************************************************************************)
EXTENDS Naturals, FiniteSets, Sequences, TLC

\* Number of caller goroutines using the Proc concurrently.
NumThreads == 2

\* Total number of method calls issued on the Proc in one behaviour.
MaxCalls == 4

Threads == 1..NumThreads

\* Number of distinct secret keys.
NumKeys == 2

\* The secret keys; NoKey is the zero cipher.SecKey, the value of the --sk
\* flag when it is not given.
Keys == 1..NumKeys
NoKey == 0

\* proc.go:22-23
errProcAlreadyRunning == "process already running"
errProcNotStarted == "process is not started"

\* The nil error.
Nil == "nil"

\* The nil net.Conn; the connections are named 1, 2, ...
NoConn == 0

\* Error of exec.Cmd.Start when the binary cannot be spawned.
errSpawn == "exec: spawn failed"

\* Error of os.Process.Signal on a process that was already waited for.
errProcessDone == "os: process already finished"

\* Errors of exec.Cmd.Wait: the ways a child process can end.
errExitStatus == "exit status 1"
errSigKilled == "signal: killed"

VARIABLES
    isRunning,   \* Proc.isRunning (int32, accessed atomically)
    waitMx,      \* Proc.waitMx: TRUE when the mutex is locked
    waitErr,     \* Proc.waitErr
    cmdProcess,  \* Proc.cmd.Process # nil
    conn,        \* Proc.conn: NoConn (nil) or the injected connection
    rpcGW,       \* Proc.rpcGW # nil
    connCh,      \* Proc.connCh: [buf: 0..1, closed: BOOLEAN]
    connOnce,    \* Proc.connOnce: [done: BOOLEAN, m: 0 or the thread inside Do]
    child,       \* the child process: [st, err], st none, alive, killed, exited or reaped
    bg,          \* position of the goroutine launched by Start
    res,         \* resources of a run: [connClosed, cmClosed, lmClosed, serving, discStart,
                 \* discStop, delta, changed]
    pc,          \* position of every caller goroutine
    op,          \* the method a caller goroutine is in (or was last in)
    ret,         \* the value the last call of a caller goroutine returned
    ctx,         \* what had already happened when the call in progress was issued
    h,           \* history of the behaviour (counters of events)
    fault,       \* Nil, or the runtime panic that ended the program
    gen          \* one run of the gen-config command: its flags, the file at
                 \* the output path, its position and its local variables

vars == <<isRunning, waitMx, waitErr, cmdProcess, conn, rpcGW, connCh, connOnce,
          child, bg, res, pc, op, ret, ctx, h, fault, gen>>

procVars == <<isRunning, waitMx, waitErr, cmdProcess, conn, rpcGW, connCh, connOnce>>

-----------------------------------------------------------------------------
\* NewProc (proc.go:62-69): the zero values of the fields, an open channel of
\* capacity 1, a command that has not been started.
NewProc ==
    /\ isRunning = 0
    /\ waitMx = FALSE
    /\ waitErr = Nil
    /\ cmdProcess = FALSE
    /\ conn = NoConn
    /\ rpcGW = FALSE
    /\ connCh = [buf |-> 0, closed |-> FALSE]
    /\ connOnce = [done |-> FALSE, m |-> 0]
    /\ child = [st |-> "none", err |-> Nil]
    /\ bg = "none"
    /\ res = [connClosed |-> FALSE, cmClosed |-> FALSE, lmClosed |-> FALSE,
              serving |-> FALSE, discStart |-> 0, discStop |-> 0,
              delta |-> FALSE, changed |-> {}]
    /\ pc = [t \in Threads |-> "idle"]
    /\ op = [t \in Threads |-> "none"]
    /\ ret = [t \in Threads |-> "none"]
    /\ ctx = [t \in Threads |-> {}]
    /\ h = [calls |-> 0, startCalls |-> 0, casOk |-> 0, already |-> 0,
            spawns |-> 0, startRet |-> "none",
            injCalls |-> 0, injTrue |-> 0, injFalse |-> 0,
            stores |-> 0, gateways |-> 0, sends |-> 0, closes |-> 0,
            winner |-> 0, stopClosed |-> FALSE, stopNil |-> FALSE,
            bgPath |-> "none"]
    /\ fault = Nil

\* The gen-config command is not run.
NotRun ==
    [pc |-> "none", sk |-> NoKey, replace |-> FALSE, file |-> "absent", oldSK |-> NoKey,
     ok |-> FALSE, skRun |-> NoKey, generated |-> FALSE, conf |-> NoKey,
     flushed |-> FALSE, fatal |-> Nil]

Init ==
    /\ NewProc
    /\ gen = NotRun

-----------------------------------------------------------------------------
\* What has already happened on the Proc: recorded when a Stop, Wait or
\* IsRunning call is issued, so that a property can speak about the calls
\* issued after an event.
Facts ==
    (IF h.startRet = Nil THEN {"startNil"} ELSE {})
    \cup (IF h.startRet = errSpawn THEN {"startErr"} ELSE {})
    \cup (IF h.injCalls > 0 THEN {"injCalled"} ELSE {})
    \cup (IF h.injTrue > 0 THEN {"injTrue"} ELSE {})
    \cup (IF h.stopNil THEN {"stopNil"} ELSE {})
    \cup (IF h.bgPath = "abnormal" THEN {"abnormalDone"} ELSE {})

\* A caller goroutine that is between two calls issues the call `name`. The
\* caller goroutines are interchangeable: they are numbered in the order of
\* their first calls.
Invoke(t, name) ==
    /\ fault = Nil
    /\ pc[t] \in {"idle", "ret"}
    /\ IF t = 1 THEN TRUE ELSE op[t - 1] # "none"
    /\ h.calls < MaxCalls
    /\ op' = [op EXCEPT ![t] = name]
    /\ ctx' = [ctx EXCEPT ![t] = IF name \in {"Stop", "Wait", "IsRunning"}
                                  THEN Facts ELSE {}]

\* The call of goroutine t returns v.
Return(t, v) ==
    /\ pc' = [pc EXCEPT ![t] = "ret"]
    /\ ret' = [ret EXCEPT ![t] = v]

\* The call of goroutine t goes on at label l.
Goto(t, l) ==
    /\ pc' = [pc EXCEPT ![t] = l]
    /\ ret' = [ret EXCEPT ![t] = "none"]

\* A goroutine in the middle of a call is at label l.
At(t, l) == fault = Nil /\ pc[t] = l

-----------------------------------------------------------------------------
\* Proc.Start

\* A Start that sets the flag without comparing it first.
CompareAndSwapInt32_NoCompare(v, old) == TRUE

\* atomic.CompareAndSwapInt32(&p.isRunning, 0, 1) succeeds (proc.go:139).
CompareAndSwapInt32(v, old) == v = old

\* proc.go:139-141
StartCAS(t) ==
    /\ Invoke(t, "Start")
    /\ IF CompareAndSwapInt32(isRunning, 0)
       THEN /\ isRunning' = 1
            /\ Goto(t, "s_lock")
            /\ h' = [h EXCEPT !.calls = @ + 1, !.startCalls = @ + 1, !.casOk = @ + 1]
       ELSE /\ isRunning' = isRunning
            /\ Return(t, errProcAlreadyRunning)
            /\ h' = [h EXCEPT !.calls = @ + 1, !.startCalls = @ + 1, !.already = @ + 1]
    /\ UNCHANGED <<gen, waitMx, waitErr, cmdProcess, conn, rpcGW, connCh, connOnce,
                   child, bg, res, fault>>

\* proc.go:144
StartLock(t) ==
    /\ At(t, "s_lock")
    /\ ~waitMx
    /\ waitMx' = TRUE
    /\ Goto(t, "s_spawn")
    /\ UNCHANGED <<gen, isRunning, waitErr, cmdProcess, conn, rpcGW, connCh, connOnce,
                   child, bg, res, op, ctx, h, fault>>

\* proc.go:146-182, p.cmd.Start() returns nil: the child process runs, the
\* goroutine is launched (it has not run yet) and Start returns nil.
StartSpawnOk(t) ==
    /\ At(t, "s_spawn")
    /\ cmdProcess' = TRUE
    /\ child' = [child EXCEPT !.st = "alive"]
    /\ bg' = "b_await"
    /\ h' = [h EXCEPT !.spawns = @ + 1, !.startRet = Nil]
    /\ Return(t, Nil)
    /\ UNCHANGED <<gen, isRunning, waitMx, waitErr, conn, rpcGW, connCh, connOnce,
                   res, op, ctx, fault>>

\* A Start that resets the running flag when the spawn fails.
StartSpawnFail_ResetFlag(t) ==
    /\ At(t, "s_spawn")
    /\ waitMx' = FALSE
    /\ isRunning' = 0
    /\ h' = [h EXCEPT !.startRet = errSpawn]
    /\ Return(t, errSpawn)
    /\ UNCHANGED <<gen, waitErr, cmdProcess, conn, rpcGW, connCh, connOnce,
                   child, bg, res, op, ctx, fault>>

\* proc.go:146-149, p.cmd.Start() fails: unlock and return the error.
StartSpawnFail(t) ==
    /\ At(t, "s_spawn")
    /\ waitMx' = FALSE
    /\ h' = [h EXCEPT !.startRet = errSpawn]
    /\ Return(t, errSpawn)
    /\ UNCHANGED <<gen, isRunning, waitErr, cmdProcess, conn, rpcGW, connCh, connOnce,
                   child, bg, res, op, ctx, fault>>

-----------------------------------------------------------------------------
\* The goroutine launched by Start (proc.go:153-180), with awaitConn.

\* An awaitConn that ignores the ok of the receive: a closed channel counts
\* as a connection that is ready.
BgAwaitConn_IgnoreOk ==
    /\ fault = Nil
    /\ bg = "b_await"
    /\ connCh.buf > 0 \/ connCh.closed
    /\ connCh' = [connCh EXCEPT !.buf = IF @ > 0 THEN @ - 1 ELSE @]
    /\ bg' = "b_serve"
    /\ UNCHANGED <<gen, isRunning, waitMx, waitErr, cmdProcess, conn, rpcGW, connOnce,
                   child, res, pc, op, ret, ctx, h, fault>>

\* proc.go:102: the receive from connCh. A buffered value is received even
\* when the channel is closed; a closed empty channel yields ok = false.
BgAwaitConn ==
    /\ fault = Nil
    /\ bg = "b_await"
    /\ \/ /\ connCh.buf > 0
          /\ connCh' = [connCh EXCEPT !.buf = @ - 1]
          /\ bg' = "b_serve"
       \/ /\ connCh.buf = 0
          /\ connCh.closed
          /\ connCh' = connCh
          /\ bg' = "b_kill"
    /\ UNCHANGED <<gen, isRunning, waitMx, waitErr, cmdProcess, conn, rpcGW, connOnce,
                   child, res, pc, op, ret, ctx, h, fault>>

\* proc.go:106-134: register the gateway, start the two forwarding routines
\* and the RPC server on p.conn.
BgServe ==
    /\ fault = Nil
    /\ bg = "b_serve"
    /\ IF rpcGW /\ conn # NoConn
       THEN res' = [res EXCEPT !.serving = TRUE] /\ bg' = "b_discStart" /\ fault' = fault
       ELSE res' = res /\ bg' = bg /\ fault' = "nil pointer dereference"
    /\ UNCHANGED <<gen, procVars, child, pc, op, ret, ctx, h>>

\* proc.go:163
BgDiscStart ==
    /\ fault = Nil
    /\ bg = "b_discStart"
    /\ res' = [res EXCEPT !.discStart = @ + 1]
    /\ bg' = "b_cmdWait"
    /\ UNCHANGED <<gen, procVars, child, pc, op, ret, ctx, h, fault>>

\* proc.go:168: p.waitErr = p.cmd.Wait(), which blocks until the child exits.
BgCmdWait ==
    /\ fault = Nil
    /\ bg = "b_cmdWait"
    /\ child.st = "exited"
    /\ waitErr' = child.err
    /\ child' = [child EXCEPT !.st = "reaped"]
    /\ bg' = "b_connClose"
    /\ UNCHANGED <<gen, isRunning, waitMx, cmdProcess, conn, rpcGW, connCh, connOnce,
                   res, pc, op, ret, ctx, h, fault>>

\* proc.go:172-174
BgConnClose ==
    /\ fault = Nil
    /\ bg = "b_connClose"
    /\ res' = [res EXCEPT !.connClosed = TRUE, !.serving = FALSE]
    /\ bg' = "b_cmClose"
    /\ UNCHANGED <<gen, procVars, child, pc, op, ret, ctx, h, fault>>

\* proc.go:175
BgCmCloseAll ==
    /\ fault = Nil
    /\ bg = "b_cmClose"
    /\ res' = [res EXCEPT !.cmClosed = TRUE]
    /\ bg' = "b_lmClose"
    /\ UNCHANGED <<gen, procVars, child, pc, op, ret, ctx, h, fault>>

\* proc.go:176
BgLmCloseAll ==
    /\ fault = Nil
    /\ bg = "b_lmClose"
    /\ res' = [res EXCEPT !.lmClosed = TRUE]
    /\ bg' = "b_unlock"
    /\ UNCHANGED <<gen, procVars, child, pc, op, ret, ctx, h, fault>>

\* A goroutine that ends without unlocking the mutex.
BgUnlock_Forgotten ==
    /\ fault = Nil
    /\ bg = "b_unlock"
    /\ bg' = "b_discStop"
    /\ UNCHANGED <<gen, procVars, child, res, pc, op, ret, ctx, h, fault>>

\* proc.go:179
BgUnlock ==
    /\ fault = Nil
    /\ bg = "b_unlock"
    /\ IF waitMx
       THEN waitMx' = FALSE /\ bg' = "b_discStop" /\ fault' = fault
       ELSE waitMx' = waitMx /\ bg' = bg /\ fault' = "sync: unlock of unlocked mutex"
    /\ UNCHANGED <<gen, isRunning, waitErr, cmdProcess, conn, rpcGW, connCh, connOnce,
                   child, res, pc, op, ret, ctx, h>>

\* proc.go:164: the deferred p.disc.Stop() runs when the goroutine returns.
BgDiscStop ==
    /\ fault = Nil
    /\ bg = "b_discStop"
    /\ res' = [res EXCEPT !.discStop = @ + 1]
    /\ bg' = "done"
    /\ h' = [h EXCEPT !.bgPath = "normal"]
    /\ UNCHANGED <<gen, procVars, child, pc, op, ret, ctx, fault>>

\* proc.go:156: p.cmd.Process.Kill(), its error ignored. Kill sends SIGKILL
\* and does not wait until the process has actually exited.
BgKill ==
    /\ fault = Nil
    /\ bg = "b_kill"
    /\ child' = IF child.st = "alive"
                THEN [child EXCEPT !.st = "killed"]
                ELSE child
    /\ bg' = "b_unlockAbn"
    /\ UNCHANGED <<gen, procVars, res, pc, op, ret, ctx, h, fault>>

\* The abnormal return as it would be with the deferred p.disc.Stop() set up
\* before awaitConn: the publisher is stopped without having been started.
BgUnlockAbnormal_DiscStop ==
    /\ fault = Nil
    /\ bg = "b_unlockAbn"
    /\ IF waitMx
       THEN waitMx' = FALSE /\ bg' = "done" /\ fault' = fault
            /\ h' = [h EXCEPT !.bgPath = "abnormal"]
            /\ res' = [res EXCEPT !.discStop = @ + 1]
       ELSE waitMx' = waitMx /\ bg' = bg /\ fault' = "sync: unlock of unlocked mutex"
            /\ h' = h /\ res' = res
    /\ UNCHANGED <<gen, isRunning, waitErr, cmdProcess, conn, rpcGW, connCh, connOnce,
                   child, pc, op, ret, ctx>>

\* proc.go:157-158
BgUnlockAbnormal ==
    /\ fault = Nil
    /\ bg = "b_unlockAbn"
    /\ IF waitMx
       THEN waitMx' = FALSE /\ bg' = "done" /\ fault' = fault
            /\ h' = [h EXCEPT !.bgPath = "abnormal"]
       ELSE waitMx' = waitMx /\ bg' = bg /\ fault' = "sync: unlock of unlocked mutex"
            /\ h' = h
    /\ UNCHANGED <<gen, isRunning, waitErr, cmdProcess, conn, rpcGW, connCh, connOnce,
                   child, res, pc, op, ret, ctx>>

-----------------------------------------------------------------------------
\* The goroutine of Start has started the forwarding routines and the RPC
\* server (it is past awaitConn).
ServingBegan ==
    bg \in {"b_discStart", "b_cmdWait", "b_connClose", "b_cmClose", "b_lmClose",
            "b_unlock", "b_discStop"}
    \/ (bg = "done" /\ h.bgPath = "normal")

-----------------------------------------------------------------------------
\* The child process ends, at any time and whether interrupted or not: cleanly
\* (cmd.Wait returns nil) or not (cmd.Wait returns an *exec.ExitError).
ExitErrors == {Nil, errExitStatus}

ChildExit ==
    /\ fault = Nil
    /\ child.st = "alive"
    /\ \E e \in ExitErrors : child' = [child EXCEPT !.st = "exited", !.err = e]
    /\ UNCHANGED <<gen, procVars, bg, res, pc, op, ret, ctx, h, fault>>

\* The child process that was sent SIGKILL ends.
ChildDie ==
    /\ fault = Nil
    /\ child.st = "killed"
    /\ child' = [child EXCEPT !.st = "exited", !.err = errSigKilled]
    /\ UNCHANGED <<gen, procVars, bg, res, pc, op, ret, ctx, h, fault>>

\* The child process was spawned and has not exited yet.
ChildAlive == child.st \in {"alive", "killed"}

-----------------------------------------------------------------------------
\* Proc.Stop

\* atomic.LoadInt32(&p.isRunning) == 0 (proc.go:187).
StopNotStarted(v) == v = 0

\* os.Process.Signal(os.Interrupt): an error once the process has been waited
\* for, nil while the process runs or is a zombie.
Signal(st) == IF st = "reaped" THEN errProcessDone ELSE Nil

\* proc.go:187-189
StopLoad(t) ==
    /\ Invoke(t, "Stop")
    /\ h' = [h EXCEPT !.calls = @ + 1]
    /\ IF StopNotStarted(isRunning)
       THEN Return(t, errProcNotStarted)
       ELSE Goto(t, "st_signal")
    /\ UNCHANGED <<gen, procVars, child, bg, res, fault>>

\* A Stop that ignores the error of Signal.
StopSignal_IgnoreError(t) ==
    /\ At(t, "st_signal")
    /\ Goto(t, "st_lock")
    /\ UNCHANGED <<gen, procVars, child, bg, res, op, ctx, h, fault>>

\* proc.go:191-196
StopSignal(t) ==
    /\ At(t, "st_signal")
    /\ IF cmdProcess /\ Signal(child.st) # Nil
       THEN Return(t, Signal(child.st))
       ELSE Goto(t, "st_lock")
    /\ UNCHANGED <<gen, procVars, child, bg, res, op, ctx, h, fault>>

\* A Stop that does not wait for the mutex.
StopLock_NoLock(t) ==
    /\ At(t, "st_lock")
    /\ Goto(t, "st_once")
    /\ UNCHANGED <<gen, procVars, child, bg, res, op, ctx, h, fault>>

\* proc.go:199-201: p.waitMx.Lock(), which blocks while the mutex is locked,
\* and the deferred p.waitMx.Unlock(); nothing happens in between.
StopLock(t) ==
    /\ At(t, "st_lock")
    /\ ~waitMx
    /\ Goto(t, "st_once")
    /\ UNCHANGED <<gen, procVars, child, bg, res, op, ctx, h, fault>>

\* A Stop that closes the channel without the Once.
StopOnce_NoOnce(t) ==
    /\ At(t, "st_once")
    /\ IF connCh.closed
       THEN /\ fault' = "close of closed channel"
            /\ UNCHANGED <<connCh, h, pc, ret>>
       ELSE /\ connCh' = [connCh EXCEPT !.closed = TRUE]
            /\ h' = [h EXCEPT !.stopNil = TRUE, !.stopClosed = TRUE, !.closes = @ + 1]
            /\ fault' = fault
            /\ Return(t, Nil)
    /\ UNCHANGED <<gen, isRunning, waitMx, waitErr, cmdProcess, conn, rpcGW, connOnce,
                   child, bg, res, op, ctx>>

\* A Stop whose close runs inside the Once of another field: connOnce is not
\* marked done.
StopOnce_OtherOnce(t) ==
    /\ At(t, "st_once")
    /\ IF connCh.closed
       THEN /\ UNCHANGED <<connCh, fault>>
            /\ h' = [h EXCEPT !.stopNil = TRUE]
       ELSE /\ connCh' = [connCh EXCEPT !.closed = TRUE]
            /\ h' = [h EXCEPT !.stopNil = TRUE, !.stopClosed = TRUE, !.closes = @ + 1]
            /\ fault' = fault
    /\ Return(t, Nil)
    /\ UNCHANGED <<gen, isRunning, waitMx, waitErr, cmdProcess, conn, rpcGW, connOnce,
                   child, bg, res, op, ctx>>

\* proc.go:202 (deferred): p.connOnce.Do(func() { close(p.connCh) }), then
\* return nil. Do waits while another goroutine is inside Do.
StopOnce(t) ==
    /\ At(t, "st_once")
    /\ connOnce.done \/ connOnce.m = 0
    /\ IF connOnce.done
       THEN /\ UNCHANGED <<connCh, connOnce, fault>>
            /\ h' = [h EXCEPT !.stopNil = TRUE]
            /\ Return(t, Nil)
       ELSE IF connCh.closed
       THEN /\ fault' = "close of closed channel"
            /\ UNCHANGED <<connCh, connOnce, h, pc, ret>>
       ELSE /\ connCh' = [connCh EXCEPT !.closed = TRUE]
            /\ connOnce' = [connOnce EXCEPT !.done = TRUE]
            /\ h' = [h EXCEPT !.stopNil = TRUE, !.stopClosed = TRUE, !.closes = @ + 1]
            /\ fault' = fault
            /\ Return(t, Nil)
    /\ UNCHANGED <<gen, isRunning, waitMx, waitErr, cmdProcess, conn, rpcGW,
                   child, bg, res, op, ctx>>

-----------------------------------------------------------------------------
\* Proc.Wait

\* A Wait whose check of the flag is inverted.
WaitNotStarted_Inverted(v) == v = 1

\* atomic.LoadInt32(&p.isRunning) != 1 (proc.go:210).
WaitNotStarted(v) == v # 1

\* proc.go:210-212
WaitLoad(t) ==
    /\ Invoke(t, "Wait")
    /\ h' = [h EXCEPT !.calls = @ + 1]
    /\ IF WaitNotStarted(isRunning)
       THEN Return(t, errProcNotStarted)
       ELSE Goto(t, "w_lock")
    /\ UNCHANGED <<gen, procVars, child, bg, res, fault>>

\* A Wait that returns p.waitErr without taking the mutex.
WaitLock_NoLock(t) ==
    /\ At(t, "w_lock")
    /\ Return(t, waitErr)
    /\ UNCHANGED <<gen, procVars, child, bg, res, op, ctx, h, fault>>

\* proc.go:215-218: p.waitMx.Lock(), which blocks while the mutex is locked;
\* p.waitErr is read with the mutex held, the deferred Unlock runs and the
\* value is returned.
WaitLock(t) ==
    /\ At(t, "w_lock")
    /\ ~waitMx
    /\ Return(t, waitErr)
    /\ UNCHANGED <<gen, procVars, child, bg, res, op, ctx, h, fault>>

-----------------------------------------------------------------------------
\* Proc.IsRunning (proc.go:222-224)
IsRunningValue(v) == IF v = 1 THEN "true" ELSE "false"

IsRunning(t) ==
    /\ Invoke(t, "IsRunning")
    /\ h' = [h EXCEPT !.calls = @ + 1]
    /\ Return(t, IsRunningValue(isRunning))
    /\ UNCHANGED <<gen, procVars, child, bg, res, fault>>

-----------------------------------------------------------------------------
\* Proc.InjectConn. The connection a caller injects is named after the caller.

\* An InjectConn that is not guarded by the Once.
OnceRuns_Always(done) == TRUE

\* sync.Once.Do runs its function when the Once has not been done.
OnceRuns(done) == ~done

\* proc.go:86-88: ok := false; the fast path of connOnce.Do.
InjectConnCall(t) ==
    /\ Invoke(t, "InjectConn")
    /\ h' = [h EXCEPT !.calls = @ + 1, !.injCalls = @ + 1,
                      !.injFalse = IF OnceRuns(connOnce.done) THEN @ ELSE @ + 1]
    /\ IF OnceRuns(connOnce.done)
       THEN Goto(t, "i_once")
       ELSE Return(t, "false")
    /\ UNCHANGED <<gen, procVars, child, bg, res, fault>>

\* proc.go:88: the slow path of connOnce.Do: one goroutine at a time, and the
\* function runs only if the Once is still not done. proc.go:89: ok = true.
InjectOnce(t) ==
    /\ At(t, "i_once")
    /\ connOnce.m = 0
    /\ IF OnceRuns(connOnce.done)
       THEN /\ connOnce' = [connOnce EXCEPT !.m = t]
            /\ Goto(t, "i_store")
            /\ h' = h
       ELSE /\ connOnce' = connOnce
            /\ Return(t, "false")
            /\ h' = [h EXCEPT !.injFalse = @ + 1]
    /\ UNCHANGED <<gen, isRunning, waitMx, waitErr, cmdProcess, conn, rpcGW, connCh,
                   child, bg, res, op, ctx, fault>>

\* proc.go:90-91: p.conn = conn; p.rpcGW = NewRPCGateway(p.log).
InjectStore(t) ==
    /\ At(t, "i_store")
    /\ conn' = t
    /\ rpcGW' = TRUE
    /\ h' = [h EXCEPT !.stores = @ + 1, !.gateways = @ + 1]
    /\ Goto(t, "i_send")
    /\ UNCHANGED <<gen, isRunning, waitMx, waitErr, cmdProcess, connCh, connOnce,
                   child, bg, res, op, ctx, fault>>

\* proc.go:94: p.connCh <- struct{}{} on a channel of capacity 1.
InjectSend(t) ==
    /\ At(t, "i_send")
    /\ connCh.closed \/ connCh.buf < 1
    /\ IF connCh.closed
       THEN /\ fault' = "send on closed channel"
            /\ UNCHANGED <<connCh, h, pc, ret>>
       ELSE /\ connCh' = [connCh EXCEPT !.buf = @ + 1]
            /\ h' = [h EXCEPT !.sends = @ + 1]
            /\ fault' = fault
            /\ Goto(t, "i_close")
    /\ UNCHANGED <<gen, isRunning, waitMx, waitErr, cmdProcess, conn, rpcGW, connOnce,
                   child, bg, res, op, ctx>>

\* proc.go:95-98: close(p.connCh), the Once is done, return ok.
InjectClose(t) ==
    /\ At(t, "i_close")
    /\ IF connCh.closed
       THEN /\ fault' = "close of closed channel"
            /\ UNCHANGED <<connCh, connOnce, h, pc, ret>>
       ELSE /\ connCh' = [connCh EXCEPT !.closed = TRUE]
            /\ connOnce' = [done |-> TRUE, m |-> 0]
            /\ h' = [h EXCEPT !.closes = @ + 1, !.injTrue = @ + 1, !.winner = t]
            /\ fault' = fault
            /\ Return(t, "true")
    /\ UNCHANGED <<gen, isRunning, waitMx, waitErr, cmdProcess, conn, rpcGW,
                   child, bg, res, op, ctx>>

-----------------------------------------------------------------------------
-----------------------------------------------------------------------------
\* The count forwarding of awaitConn (proc.go:111-129).

\* The RPC server handles a request of the child that adds or removes a
\* connection or a listener: the resource manager's count changes and the new
\* value is pushed to the delta informer, where it waits for the forwarding
\* routine.
ChildRPC ==
    /\ fault = Nil
    /\ res.serving
    /\ ~res.delta
    /\ res' = [res EXCEPT !.delta = TRUE]
    /\ UNCHANGED <<gen, procVars, child, bg, pc, op, ret, ctx, h, fault>>

\* Where the discovery publisher is: before its Start, during its started
\* window, or after its Stop.
DiscWindow ==
    IF res.discStart = 0 THEN "before"
    ELSE IF res.discStop = 0 THEN "during" ELSE "after"

\* proc.go:112-129: a forwarding routine, which runs from awaitConn on and is
\* never stopped, receives a value and calls p.disc.ChangeValue.
ForwardChangeValue ==
    /\ fault = Nil
    /\ ServingBegan
    /\ res.delta
    /\ res' = [res EXCEPT !.delta = FALSE, !.changed = @ \cup {DiscWindow}]
    /\ UNCHANGED <<gen, procVars, child, bg, pc, op, ret, ctx, h, fault>>

\* One step of caller goroutine t that issues a call.
Call(t) ==
    \/ StartCAS(t)
    \/ StopLoad(t)
    \/ WaitLoad(t)
    \/ IsRunning(t)
    \/ InjectConnCall(t)

\* One step of caller goroutine t inside a call.
Continue(t) ==
    \/ StartLock(t)
    \/ StartSpawnOk(t)
    \/ StartSpawnFail(t)
    \/ StopSignal(t)
    \/ StopLock(t)
    \/ StopOnce(t)
    \/ WaitLock(t)
    \/ InjectOnce(t)
    \/ InjectStore(t)
    \/ InjectSend(t)
    \/ InjectClose(t)

\* One step of the goroutine launched by Start.
Background ==
    \/ BgAwaitConn
    \/ BgServe
    \/ BgDiscStart
    \/ BgCmdWait
    \/ BgConnClose
    \/ BgCmCloseAll
    \/ BgLmCloseAll
    \/ BgUnlock
    \/ BgDiscStop
    \/ BgKill
    \/ BgUnlockAbnormal

Next ==
    \/ \E t \in Threads : Call(t)
    \/ \E t \in Threads : Continue(t)
    \/ Background
    \/ ChildExit
    \/ ChildDie

Spec == Init /\ [][Next]_vars

\* The Go scheduler runs every goroutine that can take a step: a call in
\* progress and the goroutine of Start go on whenever they are not blocked.
\* Nothing obliges a caller to issue a call, nor the child process to exit,
\* except that a process that was sent SIGKILL ends.
FairSpec ==
    /\ Spec
    /\ \A t \in Threads : WF_vars(Continue(t))
    /\ WF_vars(Background)
    /\ WF_vars(ChildDie)

\* The Proc together with the requests of its child that change the counts
\* of connections and listeners, and the forwarding of those counts to the
\* discovery publisher.
NextDisc ==
    \/ Next
    \/ ChildRPC
    \/ ForwardChangeValue

SpecDisc == Init /\ [][NextDisc]_vars

-----------------------------------------------------------------------------
\* The gen-config command (gen-config.go). A run is gen: the flags sk (NoKey
\* when --sk is not given) and replace, the file at the output path ("absent",
\* "unreadable", "garbage" for content that does not parse, "config" for a
\* config whose secret key is oldSK), and the variables of Run: ok and the old
\* config of readOldConfig, skRun for the local sk of gen-config.go:58, which
\* shadows the flag variable of gen-config.go:24, conf for the secret key of
\* the generated config, flushed once the config is written to the file, and
\* fatal for the message of the logger.Fatal that ended the command.

FileKinds == {"absent", "unreadable", "garbage", "config"}

\* The command lines and the files that gen-config can be run with.
GenInputs ==
    {[NotRun EXCEPT !.pc = "read", !.sk = k, !.replace = r, !.file = f, !.oldSK = o] :
        <<k, r, f, o>> \in
            {x \in ({NoKey} \cup Keys) \X BOOLEAN \X FileKinds \X ({NoKey} \cup Keys) :
                (x[4] # NoKey) <=> (x[3] = "config")}}

\* logger.Fatal: the command exits, nothing more is generated or written.
Fatal(msg) == [gen EXCEPT !.pc = "exit", !.fatal = msg]

\* gen-config.go:109-128, called at gen-config.go:59.
readOldConfig ==
    /\ gen.pc = "read"
    /\ gen' = CASE gen.file = "absent" -> [gen EXCEPT !.pc = "key", !.ok = FALSE]
              [] gen.file = "unreadable" ->
                    Fatal("Unexpected error occurred when attempting to read old config.")
              [] ~gen.replace -> Fatal("Config file already exists.")
              [] gen.file = "garbage" -> Fatal("Failed to parse old config file.")
              [] OTHER -> [gen EXCEPT !.pc = "key", !.ok = TRUE]
    /\ UNCHANGED <<procVars, child, bg, res, pc, op, ret, ctx, h, fault>>

\* gen-config.go:58-63: the local sk is the old config's key, or the secret
\* key of a fresh random pair. The flag variable is not read.
ChooseKey ==
    /\ gen.pc = "key"
    /\ IF ~gen.ok
       THEN \E k \in Keys :
                gen' = [gen EXCEPT !.pc = "genConf", !.skRun = k, !.generated = TRUE]
       ELSE gen' = [gen EXCEPT !.pc = "genConf", !.skRun = gen.oldSK]
    /\ UNCHANGED <<procVars, child, bg, res, pc, op, ret, ctx, h, fault>>

\* gen-config.go:65-93: the config is made with the local sk, and the
\* hypervisor keys are added; either can fail.
GenConf ==
    /\ gen.pc = "genConf"
    /\ \/ gen' = [gen EXCEPT !.pc = "flush", !.conf = gen.skRun]
       \/ gen' = Fatal("Failed to create config.")
       \/ gen' = Fatal("Failed to parse hypervisor private key.")
    /\ UNCHANGED <<procVars, child, bg, res, pc, op, ret, ctx, h, fault>>

\* gen-config.go:95-105: the config is written to the output path.
Flush ==
    /\ gen.pc = "flush"
    /\ \/ gen' = [gen EXCEPT !.pc = "exit", !.flushed = TRUE]
       \/ gen' = Fatal("Failed to flush config to file.")
    /\ UNCHANGED <<procVars, child, bg, res, pc, op, ret, ctx, h, fault>>

InitGen ==
    /\ NewProc
    /\ gen \in GenInputs

NextGen ==
    \/ readOldConfig
    \/ ChooseKey
    \/ GenConf
    \/ Flush

SpecGen == InitGen /\ [][NextGen]_vars

-----------------------------------------------------------------------------
\* The calls that have returned.
Returned(t, name) == pc[t] = "ret" /\ op[t] = name

\* C1: of any number of Start calls, in any interleaving, exactly one gets
\* past the check of the running flag, and it returns nil when the spawn
\* works; every other call returns errProcAlreadyRunning; the child process is
\* spawned at most once.
C1_StartOnce ==
    /\ h.casOk <= 1
    /\ h.spawns <= 1
    /\ h.casOk + h.already > 0 => h.casOk = 1
    /\ h.startRet = Nil <=> h.spawns = 1
    /\ Cardinality({t \in Threads : /\ op[t] = "Start"
                                    /\ pc[t] # "idle"
                                    /\ ret[t] # errProcAlreadyRunning}) <= 1
    /\ \A t \in Threads :
          Returned(t, "Start") => ret[t] \in {errProcAlreadyRunning, h.startRet}

\* Several Start calls were made: one returned nil, another AlreadyRunning.
C1_Witness ==
    /\ h.startRet = Nil
    /\ h.already >= 1
    /\ \E t \in Threads : Returned(t, "Start") /\ ret[t] = errProcAlreadyRunning

\* C2: as long as Start was never called, a Stop or Wait call returns
\* errProcNotStarted in its first step: it does not block, does not touch the
\* completion lock and does not close the connection-ready channel.
C2_NotStartedBeforeStart ==
    [][\A t \in Threads :
          (h.casOk + h.already = 0 /\ (StopLoad(t) \/ WaitLoad(t)))
          => /\ pc'[t] = "ret"
             /\ ret'[t] = errProcNotStarted
             /\ UNCHANGED <<waitMx, connCh, connOnce>>]_vars

\* Stop and Wait have both returned errProcNotStarted, and no Start was called.
C2_Witness ==
    /\ h.casOk + h.already = 0
    /\ \E t \in Threads : Returned(t, "Stop") /\ ret[t] = errProcNotStarted
    /\ \E t \in Threads : Returned(t, "Wait") /\ ret[t] = errProcNotStarted

\* All the InjectConn calls issued so far have returned.
InjectsDone == h.injTrue + h.injFalse = h.injCalls

\* C3 (as stated): when InjectConn was called N > 1 times, exactly one call
\* returned true and the other N - 1 returned false.
C3_ExactlyOneTrue ==
    (InjectsDone /\ h.injCalls > 1)
    => (h.injTrue = 1 /\ h.injFalse = h.injCalls - 1)

\* C3 (amended): of N InjectConn calls at most one returns true; exactly one
\* does, unless a Stop call closed the connection-ready channel first, and
\* then every call returns false. Only the call that returns true stores its
\* connection, builds the gateway and signals the channel.
C3_AtMostOneTrue ==
    /\ h.injTrue <= 1
    /\ (InjectsDone /\ h.injCalls >= 1)
       => /\ h.injTrue = (IF h.stopClosed THEN 0 ELSE 1)
          /\ h.injFalse = h.injCalls - h.injTrue
    /\ h.stores <= 1 /\ h.gateways <= 1 /\ h.sends <= 1
    /\ h.injTrue = 1 => (h.stores = 1 /\ h.gateways = 1 /\ h.sends = 1 /\ conn = h.winner)
    /\ (conn # NoConn /\ h.injTrue = 0)
       => (op[conn] = "InjectConn" /\ pc[conn] \in {"i_send", "i_close"})
    /\ h.stopClosed => (h.stores = 0 /\ conn = NoConn /\ ~rpcGW /\ h.sends = 0)

\* Two or more InjectConn calls have returned, one of them true.
C3_Witness ==
    /\ InjectsDone
    /\ h.injCalls > 1
    /\ h.injTrue = 1
    /\ \E t \in Threads : Returned(t, "InjectConn") /\ ret[t] = "false"

\* The call that goroutine t is in was issued after Start had returned nil
\* and InjectConn had returned true.
AfterStartAndInject(t) == {"startNil", "injTrue"} \subseteq ctx[t]

\* C4: a Wait call issued after Start returned nil and InjectConn returned
\* true returns only when the child process has exited (and was waited for),
\* and returns the error of that exit.
C4_WaitReturnsExitError ==
    \A t \in Threads :
        (Returned(t, "Wait") /\ AfterStartAndInject(t))
        => (child.st = "reaped" /\ ret[t] = child.err)

\* Such a Wait has returned the error of a child that failed.
C4_Witness ==
    \E t \in Threads :
        /\ Returned(t, "Wait")
        /\ AfterStartAndInject(t)
        /\ ret[t] = errExitStatus

\* C5: a Stop call issued after Start returned nil and before any InjectConn
\* call eventually returns.
C5_StopBeforeInjectReturns ==
    \A t \in Threads :
        (op[t] = "Stop" /\ pc[t] = "st_lock"
            /\ "startNil" \in ctx[t] /\ "injCalled" \notin ctx[t])
        ~> (pc[t] = "ret")

\* C6: when the run ended through the abnormal path (Start passed, no
\* connection injected, Stop returned nil, the child killed), a Wait call
\* issued afterwards returns the kill-induced error of the child.
C6_WaitAfterAbnormalExit ==
    \A t \in Threads :
        (Returned(t, "Wait")
            /\ {"abnormalDone", "stopNil"} \subseteq ctx[t]
            /\ child.err = errSigKilled)
        => ret[t] = errSigKilled

\* C7: a Wait call on a started run whose child process has crashed eventually
\* returns a non-nil error, whether the child had connected or not.
C7_WaitAfterCrashReturnsError ==
    \A t \in Threads :
        (op[t] = "Wait" /\ pc[t] = "w_lock" /\ "startNil" \in ctx[t]
            /\ child.st \in {"exited", "reaped"} /\ child.err = errExitStatus)
        ~> (pc[t] = "ret" /\ ret[t] # Nil)

\* C8: after a Start that failed to spawn the child (it returned the spawn
\* error, with the completion lock released and no goroutine launched),
\* IsRunning returns false.
C8_NotRunningAfterSpawnFailure ==
    /\ h.startRet = errSpawn => (bg = "none" /\ h.spawns = 0)
    /\ \A t \in Threads :
          (Returned(t, "IsRunning") /\ "startErr" \in ctx[t]) => ret[t] = "false"

\* C9: after a Start that failed to spawn the child, Wait returns
\* errProcNotStarted or the spawn error, never nil.
C9_WaitAfterSpawnFailure ==
    \A t \in Threads :
        (Returned(t, "Wait") /\ "startErr" \in ctx[t])
        => ret[t] \in {errProcNotStarted, errSpawn}

\* C10: when a Wait or Stop call issued after Start returned nil and
\* InjectConn returned true comes back from the completion lock, the run is
\* fully torn down: the exit error is recorded, the connection is closed and
\* CloseAll was done on the connection manager and on the listener manager.
C10_NoHalfTornDownRun ==
    \A t \in Threads :
        (/\ AfterStartAndInject(t)
         /\ \/ Returned(t, "Wait")
            \/ Returned(t, "Stop") /\ ret[t] = Nil)
        => /\ child.st = "reaped"
           /\ waitErr = child.err
           /\ res.connClosed /\ res.cmClosed /\ res.lmClosed

\* Such a Stop has returned nil.
C10_Witness ==
    \E t \in Threads :
        /\ Returned(t, "Stop")
        /\ AfterStartAndInject(t)
        /\ ret[t] = Nil

\* C11: on the Serving->Exited transition the discovery publisher is stopped
\* before the completion lock is released: when the goroutine has unlocked,
\* and when a Wait or Stop of that run has returned, disc.Stop() has been
\* invoked.
C11_DiscStoppedBeforeUnlock ==
    /\ (res.discStart = 1 /\ bg \in {"b_discStop", "done"}) => res.discStop = 1
    /\ \A t \in Threads :
          (/\ AfterStartAndInject(t)
           /\ \/ Returned(t, "Wait")
              \/ Returned(t, "Stop") /\ ret[t] = Nil)
          => res.discStop = 1

\* C12: in every interleaving of InjectConn, Stop and the goroutine of Start,
\* the connection-ready channel is closed at most once and is not sent to
\* once it is closed: no double close and no send on a closed channel.
C12_ChannelClosedOnce ==
    /\ h.closes <= 1
    /\ h.sends <= 1
    /\ fault \notin {"close of closed channel", "send on closed channel"}
    /\ connCh.closed => \A t \in Threads : pc[t] # "i_send"
    /\ connCh.closed <=> h.closes = 1

\* InjectConn has closed the channel and a Stop has gone through the Once.
C12_Witness ==
    /\ h.injTrue = 1
    /\ h.stopNil
    /\ h.closes = 1
    /\ bg = "done"

\* C13: when the interrupt signal of a Stop on a started Proc cannot be
\* delivered, Stop returns that error at once: it does not take the completion
\* lock, does not close the connection-ready channel and changes nothing of
\* the supervisor.
C13_SignalErrorReturns ==
    [][\A t \in Threads :
          (/\ fault = Nil
           /\ pc[t] = "st_signal"
           /\ pc'[t] # "st_signal"
           /\ cmdProcess
           /\ Signal(child.st) # Nil)
          => /\ pc'[t] = "ret"
             /\ ret'[t] = Signal(child.st)
             /\ UNCHANGED <<procVars, child, bg, res>>]_vars

\* A Stop has returned the error of Signal: the child had been waited for.
C13_Witness ==
    \E t \in Threads : Returned(t, "Stop") /\ ret[t] = errProcessDone

\* C14: the RPC server and the forwarding routines are started only after the
\* notification of a successful InjectConn was received, and then the injected
\* connection and the gateway are both set.
C14_ServeAfterInject ==
    /\ fault # "nil pointer dereference"
    /\ res.serving => ServingBegan
    /\ (bg = "b_serve" \/ ServingBegan)
       => (h.sends = 1 /\ connCh.buf = 0 /\ conn # NoConn /\ rpcGW)

\* The RPC server runs on the connection of the InjectConn that returned true.
C14_Witness == res.serving /\ h.injTrue = 1 /\ conn = h.winner

\* C15: while the child process is spawned and has not exited, the completion
\* lock is held for the run.
C15_LockHeldWhileChildAlive == ChildAlive => waitMx

\* C16: the running flag is monotonic. Once set it is never reset, a later
\* Start returns errProcAlreadyRunning, a later Stop or Wait does not return
\* errProcNotStarted.
C16_RunningFlagMonotonic ==
    [][/\ isRunning = 1 => isRunning' = 1
       /\ h.casOk > 0 => isRunning = 1
       /\ \A t \in Threads :
             /\ (h.casOk > 0 /\ StartCAS(t)) => ret'[t] = errProcAlreadyRunning
             /\ (h.casOk > 0 /\ (StopLoad(t) \/ WaitLoad(t)))
                => ret'[t] # errProcNotStarted]_vars

\* After a failed spawn a Start has returned errProcAlreadyRunning.
C16_Witness ==
    /\ h.startRet = errSpawn
    /\ \E t \in Threads : Returned(t, "Start") /\ ret[t] = errProcAlreadyRunning

\* Start has returned nil, InjectConn has returned true, the child has exited.
RunEnding ==
    h.startRet = Nil /\ h.injTrue = 1 /\ child.st \in {"exited", "reaped"}

\* C17: after Start returned nil and InjectConn returned true, once the child
\* process has exited every Wait and every Stop that is waiting for the
\* completion lock returns, and the lock ends up free.
C17_WaitersReturn ==
    /\ \A t \in Threads :
          (RunEnding /\ pc[t] \in {"w_lock", "st_signal", "st_lock", "st_once"})
          ~> (pc[t] = "ret")
    /\ RunEnding ~> ~waitMx

\* A Wait and a Stop issued by two callers on such a run have both returned.
C17_Witness ==
    \E t, u \in Threads :
        /\ Returned(t, "Wait") /\ AfterStartAndInject(t)
        /\ Returned(u, "Stop") /\ AfterStartAndInject(u) /\ ret[u] = Nil
        /\ ~waitMx

\* C18: once a Stop has closed the connection-ready channel of a Proc that
\* has no connection, every InjectConn returns false, the connection and the
\* gateway stay unset and no RPC server is started.
C18_NoInjectAfterStopClose ==
    h.stopClosed
    => /\ h.injTrue = 0
       /\ h.stores = 0
       /\ conn = NoConn /\ ~rpcGW
       /\ ~res.serving /\ bg # "b_serve" /\ ~ServingBegan
       /\ \A t \in Threads : Returned(t, "InjectConn") => ret[t] = "false"

\* After such a Stop an InjectConn has returned false.
C18_Witness ==
    /\ h.stopClosed
    /\ \E t \in Threads : Returned(t, "InjectConn") /\ ret[t] = "false"

-----------------------------------------------------------------------------
\* The goroutine of Start took, or is on, the path of a failed awaitConn.
AbnormalPath == bg \in {"b_kill", "b_unlockAbn"} \/ h.bgPath = "abnormal"

\* The publisher's Start and Stop: each at most once, Stop only after Start,
\* and neither when the spawn failed or the goroutine took the abnormal path.
DiscStartStopOnce ==
    /\ res.discStart <= 1
    /\ res.discStop <= res.discStart
    /\ h.startRet = errSpawn => res.discStart = 0 /\ res.discStop = 0
    /\ AbnormalPath => res.discStart = 0 /\ res.discStop = 0

\* C19 as stated: the discovery publisher is used only inside the started
\* window. Its Start and Stop are each invoked at most once, Stop only after
\* Start, neither of them when the spawn failed or on the abnormal path, and
\* ChangeValue is invoked only after Start and before Stop.
C19_DiscOnlyInWindow ==
    /\ DiscStartStopOnce
    /\ res.changed \subseteq {"during"}

\* C19, amended: the publisher's Start and Stop are each invoked at most once,
\* Stop only after Start, neither of them when the spawn failed or on the
\* abnormal path; ChangeValue is invoked only once awaitConn has received an
\* injected connection and started the forwarding routines, which may be
\* before the publisher's Start and after its Stop.
C19_DiscStartStop ==
    /\ DiscStartStopOnce
    /\ res.changed # {} => ServingBegan /\ conn # NoConn /\ rpcGW /\ h.sends = 1

\* The goroutine has ended on the normal path with the publisher started and
\* stopped, and ChangeValue was invoked in the started window.
C19_Witness ==
    /\ bg = "done"
    /\ res.discStart = 1
    /\ res.discStop = 1
    /\ "during" \in res.changed

-----------------------------------------------------------------------------
\* A file exists at the output path.
FileExists == gen.file # "absent"

\* With an old config and --replace, the generated config has the old key.
OldKeyRetained ==
    (gen.file = "config" /\ gen.replace /\ gen.conf # NoKey) => gen.conf = gen.oldSK

\* With a file and without --replace, nothing is generated and nothing is
\* written.
AbortsWithoutReplace ==
    (FileExists /\ ~gen.replace)
    => (~gen.generated /\ gen.conf = NoKey /\ ~gen.flushed
        /\ gen.pc \in {"read", "exit"})

\* Without a file, the key of --sk is the key of the generated config, and a
\* random pair is generated only when --sk is not given.
FlagKeyUsed ==
    ~FileExists
    => /\ (gen.sk # NoKey /\ gen.conf # NoKey) => gen.conf = gen.sk
       /\ gen.generated => gen.sk = NoKey

\* C20: gen-config chooses the secret key of the generated config as follows:
\* with a config file at the output path and --replace, the old file's key is
\* retained; with a file and without --replace the command aborts before it
\* generates or writes anything; with no file, the key given with --sk is
\* used, and a random key pair is generated only when --sk is unspecified.
C20_KeySelection ==
    /\ OldKeyRetained
    /\ AbortsWithoutReplace
    /\ FlagKeyUsed

=============================================================================
